---- MODULE Spec2Model ----
(***************************************************************************)
(* Folder signing and verification of nvflare/lighter/utils.py:            *)
(* sign_folders writes, in every visited directory, a manifest of          *)
(* signatures and a copy of the submitter certificate;                     *)
(* verify_folder_signature walks the tree and checks them against a root   *)
(* certificate.  The file system is the only state shared by the two.      *)
(*                                                                         *)
(* Cryptography is symbolic: a signature is the pair (signing key, signed  *)
(* bytes), a certificate the pair (subject key, issuer key).  A key pair   *)
(* is named by one string, used for its private and its public half.  The  *)
(* PSS salt and the base64 text form of a signature are not represented.   *)
(*                                                                         *)
(* Each call is one step.  The tree changes between the calls only; the    *)
(* file at crt_path is a PEM certificate; what a call raises is an         *)
(* Exception, the one outcome "exc" or "raised".                           *)
(*                                                                         *)
(* Three specifications share the state and the two calls and differ in    *)
(* the edits around them: Spec (content changes, locked files, deleted or  *)
(* corrupted artifacts around one signing), SpecAlter (entries added,      *)
(* removed, renamed around one signing) and SpecSign (repeated signing).   *)
(***************************************************************************)
EXTENDS Integers, Sequences, FiniteSets, TLC

\* ------------------------------------------------------------------ bounds
MaxDirs == 3        \* directory identities 1..MaxDirs
MaxBudget == 2      \* explicit values of max_depth: 0..MaxBudget
MaxEdits == 2       \* edits of the tree around one signing (Spec, SpecAlter)
MaxSigns == 2       \* calls of sign_folders on one tree (SpecSign)
MaxPrep == 1        \* edits of the tree between those calls (SpecSign)

\* --------------------------------------------------------------- constants
\* The two names are imported from nvflare.lighter.tool_consts; all that is
\* used of them is that they are two distinct names.
NVFLARE_SIG_FILE == "__nvfl_sig.json"
NVFLARE_SUBMITTER_CRT_FILE == "__nvfl_submitter.crt"

Reserved == {NVFLARE_SIG_FILE, NVFLARE_SUBMITTER_CRT_FILE}
PayloadNames == {"x", "y"}
Names == PayloadNames \cup Reserved
\* File contents.  A folder name is signed as its UTF-8 bytes, so a name and
\* a content may be the same byte string.
Bytes == {"x", "y"}

DirIds == 1..MaxDirs
TopDir == 1
DefaultMaxDepth == 9999
Budgets == (0..MaxBudget) \cup {DefaultMaxDepth}

PrivKeys == {"K"}
\* submitter certificates: of key K, issued by root R or by another root X,
\* and of another key J, issued by R
SubmitterCerts == {[kind |-> "cert", subject |-> "K", issuer |-> "R"],
                   [kind |-> "cert", subject |-> "K", issuer |-> "X"],
                   [kind |-> "cert", subject |-> "J", issuer |-> "R"]}
\* what the path root_ca_path may hold
RootFiles == {[kind |-> "cert", subject |-> "R", issuer |-> "R"],
              [kind |-> "garbage", subject |-> "", issuer |-> ""]}

\* -------------------------------------------------------------- file system
NoSig == [kind |-> "none", key |-> "", data |-> ""]
NoFile == [kind |-> "absent", data |-> ""]
NoFiles == [n \in PayloadNames |-> NoFile]
EmptyMap == [n \in Names |-> NoSig]
NoManifest == [kind |-> "absent", map |-> EmptyMap]
NoCert == [kind |-> "absent", subject |-> "", issuer |-> ""]
GarbageCert == [kind |-> "garbage", subject |-> "", issuer |-> ""]
AbsentDir == [present |-> FALSE, parent |-> 0, name |-> "", files |-> NoFiles,
              sig |-> NoManifest, crt |-> NoCert]
EmptyDir(p, n) == [present |-> TRUE, parent |-> p, name |-> n, files |-> NoFiles,
                   sig |-> NoManifest, crt |-> NoCert]

Present(f) == {d \in DirIds : f[d].present}
Children(f, d) == {c \in DirIds : f[c].present /\ f[c].parent = d}

RECURSIVE Descendants(_, _)
Descendants(f, d) ==
    Children(f, d) \cup UNION {Descendants(f, c) : c \in Children(f, d)}

\* os.walk(top), topdown: a directory is yielded before its subdirectories,
\* each subtree is walked completely before the next sibling, and the order
\* of the siblings is the platform's.
RECURSIVE Walks(_, _)
RECURSIVE SubWalks(_, _)
Walks(f, d) == {<<d>> \o s : s \in SubWalks(f, Children(f, d))}
SubWalks(f, S) ==
    IF S = {} THEN {<<>>}
    ELSE UNION {{w \o r : w \in Walks(f, c), r \in SubWalks(f, S \ {c})} : c \in S}

\* the (root, folders, files) triple os.walk yields for directory d
folders(f, d) == {f[c].name : c \in Children(f, d)}
files(f, d) ==
    {n \in PayloadNames : f[d].files[n].kind # "absent"}
    \cup (IF f[d].sig.kind # "absent" THEN {NVFLARE_SIG_FILE} ELSE {})
    \cup (IF f[d].crt.kind # "absent" THEN {NVFLARE_SUBMITTER_CRT_FILE} ELSE {})

\* a name is free in d when no file and no subfolder of d carries it
FreeName(f, d, n) == n \notin files(f, d) /\ n \notin folders(f, d)

\* ------------------------------------------------------------- primitives
sign_content(content, signing_pri_key) ==
    [kind |-> "sig", key |-> signing_pri_key, data |-> content]

\* variant: the signed bytes are not compared
verify_content_key_only(content, signature, public_key) ==
    /\ signature.kind = "sig"
    /\ signature.key = public_key

\* TRUE when public_key.verify returns, FALSE when it raises
verify_content(content, signature, public_key) ==
    /\ signature.kind = "sig"
    /\ signature.key = public_key
    /\ signature.data = content

\* variant: the issuer's signature is not checked
verify_cert_unchecked(cert_to_be_verified, root_ca_public_key) == TRUE

\* TRUE when root_ca_public_key.verify returns, FALSE when it raises
verify_cert(cert_to_be_verified, root_ca_public_key) ==
    cert_to_be_verified.issuer = root_ca_public_key

\* variant: no name is skipped
IsReserved_none(file) == FALSE

\* the test of lines 117 and 149
IsReserved(file) == file = NVFLARE_SIG_FILE \/ file = NVFLARE_SUBMITTER_CRT_FILE

\* open(os.path.join(root, file), "rb").read(): a payload file's record; the
\* two reserved files hold bytes that are no payload content
ReadFile(f, d, file) ==
    IF file \in PayloadNames THEN f[d].files[file] ELSE [kind |-> "file", data |-> "#"]

\* ------------------------------------------------------------ sign_folders
\* variant: a file is signed by its name instead of its bytes
Signatures_by_name(f, d, signing_pri_key) ==
    [n \in Names |->
        IF n \in folders(f, d) \/ (n \in files(f, d) /\ ~IsReserved(n))
        THEN sign_content(n, signing_pri_key)
        ELSE NoSig]

\* the dict built by the two loops of one visit; the folder loop runs second
Signatures(f, d, signing_pri_key) ==
    [n \in Names |->
        IF n \in folders(f, d) THEN sign_content(n, signing_pri_key)
        ELSE IF n \in files(f, d) /\ ~IsReserved(n)
             THEN sign_content(ReadFile(f, d, n).data, signing_pri_key)
             ELSE NoSig]

\* variant: an unreadable file is passed over
ReadFails_ignored(f, d) == FALSE

\* a file of the directory that the file loop opens and cannot read
ReadFails(f, d) ==
    \E n \in files(f, d) : ~IsReserved(n) /\ ReadFile(f, d, n).kind = "locked"

\* variant: the comparison is strict
BudgetReached_strict(depth, max_depth) == depth > max_depth

BudgetReached(depth, max_depth) == depth >= max_depth

\* the loop of sign_folders from the directory after position depth0 of the
\* walk; the result holds the file system left behind, how the call ended,
\* the number of directories visited and of manifests written
RECURSIVE sign_walk(_, _, _, _, _, _, _)
sign_walk(f, order, depth0, written, signing_pri_key, crt, max_depth) ==
    IF depth0 = Len(order)
    THEN [fs |-> f, status |-> "returned", depth |-> depth0, written |-> written]
    ELSE LET depth == depth0 + 1
             root == order[depth]
             f1 == [f EXCEPT ![root].sig =
                       [kind |-> "dict", map |-> Signatures(f, root, signing_pri_key)]]
             f2 == [f1 EXCEPT ![root].crt = crt]
         IN IF ReadFails(f, root) \/ NVFLARE_SIG_FILE \in folders(f, root)
            THEN [fs |-> f, status |-> "raised", depth |-> depth, written |-> written]
            ELSE IF NVFLARE_SUBMITTER_CRT_FILE \in folders(f, root)
            THEN [fs |-> f1, status |-> "raised", depth |-> depth, written |-> written + 1]
            ELSE IF BudgetReached(depth, max_depth)
            THEN [fs |-> f2, status |-> "returned", depth |-> depth, written |-> written + 1]
            ELSE sign_walk(f2, order, depth, written + 1, signing_pri_key, crt, max_depth)

sign_folders(f, order, signing_pri_key, crt, max_depth) ==
    sign_walk(f, order, 0, 0, signing_pri_key, crt, max_depth)

\* ------------------------------------------------- verify_folder_signature
\* lines 141-143 return normally: the manifest is a file holding JSON and
\* the certificate is a file holding a PEM certificate.  A subfolder under
\* a reserved name makes open() raise like a missing file does.
Loaded(f, d) ==
    /\ f[d].sig.kind \in {"dict", "nonobject"}
    /\ f[d].crt.kind = "cert"

\* variant: the TODO of line 145 carried out
LoadFailureAction_fail == "raise"

\* line 145: what the handler of a failed load does
LoadFailureAction == "continue"

\* variant: the subdirectories of a skipped directory are pruned
NextAfterSkip_prune(f, order, i) == i + 1 + Cardinality(Descendants(f, order[i]))

\* the position of the walk the loop goes on with after skipping position i
NextAfterSkip(f, order, i) == i + 1

\* variant: the test is missing
Truthy_always(signature) == TRUE

\* `if signature:` of lines 152 and 160
Truthy(signature) == signature.kind # "none"

\* lines 151-157 and 159-165 for one entry: TRUE when they raise nothing.
\* content is the record of the file read, or of the folder name.
CheckEntry(signatures, name, content, public_key) ==
    IF signatures.kind # "dict" THEN FALSE       \* .get on a non-dict raises
    ELSE LET signature == signatures.map[name]
         IN IF ~Truthy(signature) THEN TRUE
            ELSE IF content.kind = "locked" THEN FALSE   \* open() raises
            ELSE verify_content(content.data, signature, public_key)

\* the body of the loop for a directory whose artifacts loaded
CheckDir(f, d, root_ca_public_key) ==
    LET signatures == f[d].sig
        public_key == f[d].crt.subject
    IN /\ verify_cert(f[d].crt, root_ca_public_key)
       /\ \A file \in files(f, d) :
             IsReserved(file) \/ CheckEntry(signatures, file, ReadFile(f, d, file), public_key)
       /\ \A folder \in folders(f, d) :
             CheckEntry(signatures, folder, [kind |-> "file", data |-> folder], public_key)

\* the loop of lines 139-165 from position i: "True" when it runs to the
\* return statement, "exc" when an exception leaves it
RECURSIVE verify_walk(_, _, _, _)
verify_walk(f, order, i, root_ca_public_key) ==
    IF i > Len(order) THEN "True"
    ELSE IF ~Loaded(f, order[i])
    THEN IF LoadFailureAction = "continue"
         THEN verify_walk(f, order, NextAfterSkip(f, order, i), root_ca_public_key)
         ELSE "exc"
    ELSE IF CheckDir(f, order[i], root_ca_public_key)
    THEN verify_walk(f, order, i + 1, root_ca_public_key)
    ELSE "exc"

\* variant: no handler around the body
OuterExcept_none(outcome) == outcome

\* lines 167-168: `except Exception: return False`
OuterExcept(outcome) == IF outcome = "exc" THEN "False" ELSE outcome

verify_folder_signature(f, order, root_ca) ==
    OuterExcept(IF root_ca.kind # "cert" THEN "exc"          \* load_crt raises
                ELSE verify_walk(f, order, 1, root_ca.subject))

\* ------------------------------------------------------------------- state
VARIABLES
    fs,         \* the directory tree: DirIds -> directory record
    lastSign,   \* the last call of sign_folders: arguments, tree before and after
    verdict,    \* the last call of verify_folder_signature on the current tree
    edits,      \* number of edits made so far
    signs       \* number of sign_folders calls so far

vars == <<fs, lastSign, verdict, edits, signs>>

NoSign == [status |-> "none", pre |-> [d \in DirIds |-> AbsentDir],
           post |-> [d \in DirIds |-> AbsentDir], order |-> <<>>, max_depth |-> 0,
           key |-> "", crt |-> NoCert, depth |-> 0, written |-> 0]
NoVerdict == [result |-> "none", root_ca |-> NoCert]

\* Initial trees: 1..MaxDirs directories, every directory below an earlier
\* one; the subfolders of a directory are named "x", then "y"; a directory
\* with a payload name left holds one file under the last such name.
OneFile(n) == [NoFiles EXCEPT ![n] = [kind |-> "file", data |-> "x"]]
InitTrees ==
    {f \in [DirIds -> {AbsentDir}
                      \cup {[EmptyDir(p, n) EXCEPT !.files = fl] :
                              p \in 0..MaxDirs, n \in PayloadNames \cup {""},
                              fl \in {NoFiles, OneFile("y")}}] :
        /\ f[TopDir].present /\ f[TopDir].parent = 0 /\ f[TopDir].name = ""
        /\ \A d \in DirIds \ {TopDir} :
              IF f[d].present
              THEN /\ f[d].parent \in 1..(d - 1) /\ f[f[d].parent].present
                   /\ f[d - 1].present
                   /\ LET older == {e \in 1..(d - 1) : f[e].parent = f[d].parent}
                      IN /\ Cardinality(older) <= 1
                         /\ f[d].name = IF older = {} THEN "x" ELSE "y"
              ELSE f[d] = AbsentDir
        /\ \A d \in DirIds :
              f[d].present => (f[d].files = NoFiles <=> "y" \in folders(f, d))}

Init ==
    /\ fs \in InitTrees
    /\ lastSign = NoSign
    /\ verdict = NoVerdict
    /\ edits = 0
    /\ signs = 0

\* ----------------------------------------------------------------- actions
Sign(max_depth, signing_pri_key, crt, order) ==
    /\ order \in Walks(fs, TopDir)
    /\ LET r == sign_folders(fs, order, signing_pri_key, crt, max_depth)
       IN /\ fs' = r.fs
          /\ lastSign' = [status |-> r.status, pre |-> fs, post |-> r.fs, order |-> order,
                          max_depth |-> max_depth, key |-> signing_pri_key, crt |-> crt,
                          depth |-> r.depth, written |-> r.written]
    /\ verdict' = NoVerdict
    /\ signs' = signs + 1
    /\ UNCHANGED edits

Verify(root_ca, order) ==
    /\ order \in Walks(fs, TopDir)
    /\ verdict' = [result |-> verify_folder_signature(fs, order, root_ca), root_ca |-> root_ca]
    /\ UNCHANGED <<fs, lastSign, edits, signs>>

\* An edit of the tree made outside the two functions.
Edit(f) ==
    /\ fs' = f
    /\ f # fs
    /\ verdict' = NoVerdict
    /\ edits' = edits + 1
    /\ UNCHANGED <<lastSign, signs>>

IsFile(d, n) == fs[d].present /\ fs[d].files[n].kind = "file"

MutateFile(d, n, b) ==
    /\ IsFile(d, n) /\ fs[d].files[n].data # b
    /\ Edit([fs EXCEPT ![d].files[n].data = b])

AddFile(d, n, b) ==
    /\ fs[d].present /\ FreeName(fs, d, n)
    /\ Edit([fs EXCEPT ![d].files[n] = [kind |-> "file", data |-> b]])

RemoveFile(d, n) ==
    /\ fs[d].present /\ fs[d].files[n].kind # "absent"
    /\ Edit([fs EXCEPT ![d].files[n] = NoFile])

RenameFile(d, n, m) ==
    /\ fs[d].present /\ fs[d].files[n].kind # "absent" /\ FreeName(fs, d, m)
    /\ Edit([fs EXCEPT ![d].files[n] = NoFile, ![d].files[m] = fs[d].files[n]])

\* chmod: the file can no longer be opened for reading
LockFile(d, n) ==
    /\ IsFile(d, n)
    /\ Edit([fs EXCEPT ![d].files[n] = [kind |-> "locked", data |-> ""]])

\* mkdir under the smallest unused identity
AddFolder(p, n) ==
    /\ fs[p].present /\ FreeName(fs, p, n)
    /\ DirIds \ Present(fs) # {}
    /\ LET d == CHOOSE c \in DirIds \ Present(fs) : \A e \in DirIds \ Present(fs) : c <= e
       IN Edit([fs EXCEPT ![d] = EmptyDir(p, n)])

\* rm -r
RemoveFolder(d) ==
    /\ fs[d].present /\ d # TopDir
    /\ Edit([e \in DirIds |-> IF e = d \/ e \in Descendants(fs, d) THEN AbsentDir ELSE fs[e]])

RenameFolder(d, n) ==
    /\ fs[d].present /\ d # TopDir /\ FreeName(fs, fs[d].parent, n)
    /\ Edit([fs EXCEPT ![d].name = n])

\* delete the manifest (what = "sig"), the certificate ("crt") or both
\* ("both") in every directory of D
DeleteArtifacts(D, what) ==
    /\ D # {}
    /\ \A d \in D : /\ fs[d].present
                    /\ what \in {"sig", "both"} => fs[d].sig.kind # "absent"
                    /\ what \in {"crt", "both"} => fs[d].crt.kind # "absent"
    /\ Edit([d \in DirIds |->
               [fs[d] EXCEPT !.sig = IF d \in D /\ what \in {"sig", "both"} THEN NoManifest ELSE @,
                             !.crt = IF d \in D /\ what \in {"crt", "both"} THEN NoCert ELSE @]])

\* overwrite a manifest with bytes that are no JSON, or JSON that is no object
CorruptManifest(d, k) ==
    /\ fs[d].present /\ fs[d].sig.kind # "absent"
    /\ Edit([fs EXCEPT ![d].sig = [kind |-> k, map |-> EmptyMap]])

\* overwrite a certificate with bytes that are no PEM certificate
CorruptCert(d) ==
    /\ fs[d].present /\ fs[d].crt.kind # "absent"
    /\ Edit([fs EXCEPT ![d].crt = GarbageCert])

SignAny ==
    \E k \in Budgets, key \in PrivKeys, crt \in SubmitterCerts, o \in Walks(fs, TopDir) :
        Sign(k, key, crt, o)
VerifyAny == \E r \in RootFiles, o \in Walks(fs, TopDir) : Verify(r, o)

\* ---------------------------------------------------------- specifications
\* Spec: a tree is signed once and verified; around the signing, payload
\* files are changed or locked and manifests and certificates are deleted
\* or corrupted.
Next ==
    \/ signs = 0 /\ SignAny
    \/ VerifyAny
    \/ edits < MaxEdits /\ \E d \in DirIds, n \in PayloadNames, b \in Bytes : MutateFile(d, n, b)
    \/ edits < MaxEdits /\ \E d \in DirIds, n \in PayloadNames : LockFile(d, n)
    \/ edits < MaxEdits /\ \E D \in SUBSET DirIds, w \in {"sig", "crt", "both"} : DeleteArtifacts(D, w)
    \/ edits < MaxEdits /\ \E d \in DirIds, k \in {"garbage", "nonobject"} : CorruptManifest(d, k)
    \/ edits < MaxEdits /\ \E d \in DirIds : CorruptCert(d)

Spec == Init /\ [][Next]_vars

\* SpecAlter: a tree is signed once and verified; around the signing,
\* entries are added, removed and renamed.
NextAlter ==
    \/ signs = 0 /\ SignAny
    \/ VerifyAny
    \/ edits < MaxEdits /\ \E d \in DirIds, n \in PayloadNames, b \in Bytes : AddFile(d, n, b)
    \/ edits < MaxEdits /\ \E d \in DirIds, n \in PayloadNames : RemoveFile(d, n)
    \/ edits < MaxEdits /\ \E d \in DirIds, n \in PayloadNames, m \in PayloadNames : RenameFile(d, n, m)
    \/ edits < MaxEdits /\ \E p \in DirIds, n \in Names : AddFolder(p, n)
    \/ edits < MaxEdits /\ \E d \in DirIds : RemoveFolder(d)
    \/ edits < MaxEdits /\ \E d \in DirIds, n \in Names : RenameFolder(d, n)

SpecAlter == Init /\ [][NextAlter]_vars

\* SpecSign: the signer's side.  A tree is signed up to MaxSigns times, with
\* edits of its entries before and between the calls, and verified.
NextSign ==
    \/ signs < MaxSigns /\ SignAny
    \/ VerifyAny
    \/ edits < MaxPrep /\ \E d \in DirIds, n \in PayloadNames : LockFile(d, n)
    \/ edits < MaxPrep /\ \E d \in DirIds, n \in PayloadNames : RemoveFile(d, n)
    \/ edits < MaxPrep /\ \E d \in DirIds, n \in PayloadNames, b \in Bytes : AddFile(d, n, b)
    \/ edits < MaxPrep /\ \E p \in DirIds, n \in Names : AddFolder(p, n)
    \/ edits < MaxPrep /\ \E d \in DirIds, n \in Names : RenameFolder(d, n)

SpecSign == Init /\ [][NextSign]_vars

\* ------------------------------------------------------------- properties
\* Vocabulary of the properties.  It reads the state only: the tree, the
\* record of the last sign_folders call and the last verdict.
Called == verdict.result # "none"
Returned == lastSign.status = "returned"
Tree0 == lastSign.pre       \* the tree the last call started on
Tree1 == lastSign.post      \* the tree the last call left behind
NDirs == Cardinality(Present(Tree0))
Max(a, b) == IF a >= b THEN a ELSE b
Min(a, b) == IF a <= b THEN a ELSE b
HasArtifact(f, d) == f[d].sig.kind # "absent" \/ f[d].crt.kind # "absent"
Unsigned(f) == \A d \in Present(f) : ~HasArtifact(f, d)
VisitedDirs == {lastSign.order[i] : i \in 1..lastSign.depth}
\* the budget covered the whole tree
WholeTree == Returned /\ lastSign.max_depth >= NDirs
\* what the budget left out holds neither manifest nor certificate
RestBare == \A d \in Present(Tree1) \ VisitedDirs : ~HasArtifact(Tree1, d)
\* the root certificate given to the verifier issued the signer's certificate
RootIssued ==
    /\ verdict.root_ca.kind = "cert"
    /\ lastSign.crt.issuer = verdict.root_ca.subject
\* the certificate given to the signer is the certificate of its key
OwnCert == lastSign.crt.subject = lastSign.key
\* signed by key K with certificate C issued by R, whole or as far as the
\* budget went
WellSigned == Returned /\ OwnCert /\ RootIssued /\ (WholeTree \/ RestBare)

\* C1 as stated: for every tree and every budget, verifying the unmodified
\* tree that sign_folders signed with the key of a certificate issued by the
\* root returns True.
C1_AnyTree ==
    (Called /\ Returned /\ OwnCert /\ RootIssued /\ fs = Tree1) => verdict.result = "True"

\* C1 amended: verifying an unmodified tree that sign_folders signed with the
\* key of a certificate issued by the root returns True when the whole tree
\* was signed, and when the budget ran out and the directories it left out
\* hold no manifest and no certificate.
C1_SignThenVerify ==
    (Called /\ WellSigned /\ fs = Tree1) => verdict.result = "True"

\* a signed and verified tree where the budget left a directory out
C1_Witness ==
    /\ Called /\ WellSigned /\ fs = Tree1
    /\ ~WholeTree
    /\ Present(Tree1) \ VisitedDirs # {}
    /\ \E d \in VisitedDirs, n \in PayloadNames : fs[d].files[n].kind = "file"
    /\ verdict.result = "True"

\* the tree is the signed tree but for the content of one payload file
OneFileChanged ==
    \E d \in Present(Tree1), n \in PayloadNames :
        /\ Tree1[d].files[n].kind = "file"
        /\ fs[d].files[n].kind = "file"
        /\ fs[d].files[n].data # Tree1[d].files[n].data
        /\ fs = [Tree1 EXCEPT ![d].files[n].data = fs[d].files[n].data]

\* C2: after the whole tree was signed, a change of the content of one
\* payload file, manifests and certificates intact, makes verification
\* return False.
C2_ContentChangeDetected ==
    (Called /\ WholeTree /\ OneFileChanged) => verdict.result = "False"

\* the file changed lies below the top directory, whose own check passes
C2_Witness ==
    /\ Called /\ WholeTree /\ OwnCert /\ RootIssued
    /\ \E d \in Present(Tree1) \ {TopDir}, n \in PayloadNames :
          /\ Tree1[d].files[n].kind = "file"
          /\ fs = [Tree1 EXCEPT ![d].files[n].data = fs[d].files[n].data]
          /\ fs # Tree1
    /\ verdict.result = "False"

\* C3: a tree signed with a certificate that the verifier's root did not
\* issue fails verification, all its signatures being valid under the
\* certificate's key.
C3_ForeignIssuerRejected ==
    (/\ Called /\ Returned /\ fs = Tree1
     /\ verdict.root_ca.kind = "cert"
     /\ lastSign.crt.issuer # verdict.root_ca.subject) => verdict.result = "False"

C3_Witness ==
    /\ Called /\ WholeTree /\ OwnCert /\ fs = Tree1
    /\ verdict.root_ca.kind = "cert"
    /\ lastSign.crt.issuer # verdict.root_ca.subject
    /\ verdict.result = "False"

\* the tree is the signed tree with manifests or certificates deleted
OnlyDeleted ==
    /\ fs # Tree1
    /\ \A d \in DirIds :
          \E s \in {Tree1[d].sig, NoManifest}, c \in {Tree1[d].crt, NoCert} :
              fs[d] = [Tree1[d] EXCEPT !.sig = s, !.crt = c]

SignedDirs(f) == {d \in Present(f) : HasArtifact(f, d)}
FirstOfWalk(n) == {lastSign.order[i] : i \in 1..Min(n, Len(lastSign.order))}

\* C5 as stated: on an unsigned tree of N directories and with budget k, at
\* most k directories hold a manifest or certificate afterwards, they are
\* the first min(k, N) of the walk, and with k = 1 only the top directory.
C5_BudgetAsStated ==
    (Returned /\ Unsigned(Tree0)) =>
        /\ Cardinality(SignedDirs(Tree1)) <= lastSign.max_depth
        /\ SignedDirs(Tree1) = FirstOfWalk(Min(lastSign.max_depth, NDirs))
        /\ lastSign.max_depth = 1 => SignedDirs(Tree1) = {TopDir}

\* C5 amended: the counter is compared with k after each visit, so the top
\* directory is always signed: the signed directories are the first
\* min(max(k, 1), N) of the walk, each holds both files, every other
\* directory holds neither, and with k <= 1 only the top directory is signed.
C5_Budget ==
    (Returned /\ Unsigned(Tree0)) =>
        LET k == Max(lastSign.max_depth, 1)
        IN /\ Cardinality(SignedDirs(Tree1)) <= k
           /\ SignedDirs(Tree1) = FirstOfWalk(Min(k, NDirs))
           /\ \A d \in SignedDirs(Tree1) :
                 Tree1[d].sig.kind = "dict" /\ Tree1[d].crt = lastSign.crt
           /\ lastSign.max_depth <= 1 => SignedDirs(Tree1) = {TopDir}

\* a budget of 2 on a tree of 3 directories
C5_Witness ==
    /\ Returned /\ Unsigned(Tree0)
    /\ lastSign.max_depth = 2 /\ NDirs = 3
    /\ Cardinality(SignedDirs(Tree1)) = 2

\* the keys of a manifest
Keys(m) == {n \in Names : m.map[n].kind # "none"}
PayloadFiles(f, d) == {n \in PayloadNames : f[d].files[n].kind # "absent"}
\* the directories whose manifest the last call wrote
WrittenDirs == {lastSign.order[i] : i \in 1..lastSign.written}

\* C9 as stated: the keys of a manifest sign_folders wrote are the names of
\* the directory's files and subfolders other than the two reserved names.
C9_KeysAsStated ==
    \A d \in WrittenDirs :
        /\ Tree1[d].sig.kind = "dict"
        /\ Keys(Tree1[d].sig) = (PayloadFiles(Tree1, d) \cup folders(Tree1, d)) \ Reserved

\* C9 amended: the keys of a manifest sign_folders wrote, on the first
\* signing and on a later one, are the names of the directory's files other
\* than the two reserved names and the names of all its subfolders, a
\* subfolder under the reserved certificate name included.
C9_Keys ==
    \A d \in WrittenDirs :
        /\ Tree1[d].sig.kind = "dict"
        /\ Keys(Tree1[d].sig) = PayloadFiles(Tree1, d) \cup folders(Tree1, d)

\* a second signing of a directory whose entries changed since the first
C9_Witness ==
    /\ signs = 2
    /\ \E d \in WrittenDirs :
          /\ Tree0[d].sig.kind = "dict" /\ Tree0[d].crt.kind = "cert"
          /\ Keys(Tree0[d].sig) # Keys(Tree1[d].sig)

\* what makes the visit of directory d fail
Locked(f, d) == \E n \in PayloadNames : f[d].files[n].kind = "locked"
IOFails(f, d) == Locked(f, d) \/ folders(f, d) \cap Reserved # {}

\* C10: when the first directory of the walk with an I/O failure lies within
\* the budget, the call raises, no later directory of the walk is written
\* to, and after a failed read the directory's manifest is the one it had.
C10_FailureStops ==
    \A i \in 1..Len(lastSign.order) :
        (/\ lastSign.status # "none"
         /\ i <= Max(lastSign.max_depth, 1)
         /\ IOFails(Tree0, lastSign.order[i])
         /\ \A j \in 1..(i - 1) : ~IOFails(Tree0, lastSign.order[j]))
        => /\ lastSign.status = "raised"
           /\ \A j \in (i + 1)..Len(lastSign.order) :
                 Tree1[lastSign.order[j]] = Tree0[lastSign.order[j]]
           /\ Locked(Tree0, lastSign.order[i]) =>
                 Tree1[lastSign.order[i]] = Tree0[lastSign.order[i]]

\* a read failure in the top directory of an unsigned tree with subfolders
C10_Witness ==
    /\ lastSign.status = "raised"
    /\ Unsigned(Tree0) /\ Unsigned(Tree1)
    /\ Locked(Tree0, TopDir)
    /\ NDirs >= 2 /\ lastSign.max_depth >= 2

\* The tree is the signed tree but for one entry added, removed or renamed;
\* every manifest and certificate is the one the signing left.
FileAdded ==
    \E d \in Present(Tree1), n \in PayloadNames :
        /\ FreeName(Tree1, d, n)
        /\ fs[d].files[n].kind = "file"
        /\ fs = [Tree1 EXCEPT ![d].files[n] = fs[d].files[n]]
FileRemoved ==
    \E d \in Present(Tree1), n \in PayloadNames :
        /\ Tree1[d].files[n].kind # "absent"
        /\ fs = [Tree1 EXCEPT ![d].files[n] = NoFile]
FileRenamed ==
    \E d \in Present(Tree1), n \in PayloadNames, m \in PayloadNames :
        /\ Tree1[d].files[n].kind # "absent"
        /\ FreeName(Tree1, d, m)
        /\ fs = [Tree1 EXCEPT ![d].files[n] = NoFile, ![d].files[m] = Tree1[d].files[n]]
FolderAdded ==
    \E c \in DirIds \ Present(Tree1), p \in Present(Tree1), n \in Names :
        /\ FreeName(Tree1, p, n)
        /\ fs = [Tree1 EXCEPT ![c] = EmptyDir(p, n)]
FolderRemoved ==
    \E c \in Present(Tree1) \ {TopDir} :
        fs = [e \in DirIds |->
                IF e = c \/ e \in Descendants(Tree1, c) THEN AbsentDir ELSE Tree1[e]]
FolderRenamed ==
    \E c \in Present(Tree1) \ {TopDir}, n \in Names :
        /\ FreeName(Tree1, Tree1[c].parent, n)
        /\ fs = [Tree1 EXCEPT ![c].name = n]
EntryAltered ==
    FileAdded \/ FileRemoved \/ FileRenamed \/ FolderAdded \/ FolderRemoved \/ FolderRenamed

\* C6 as stated: after the whole tree was signed, adding, removing or
\* renaming an entry of a signed directory makes verification return False.
C6_NamesBound ==
    (Called /\ WholeTree /\ EntryAltered) => verdict.result = "False"

\* C6 amended: the manifest binds the content of the files found under their
\* signed names, not the set of names.  After the whole tree was signed with
\* the key of a certificate the root issued, adding a file or an empty
\* subfolder, removing an entry or renaming one to a free name leaves the
\* verdict True.
C6_NamesNotBound ==
    (Called /\ WholeTree /\ OwnCert /\ RootIssued /\ EntryAltered) => verdict.result = "True"

\* a file was added to a signed directory and the tree verified
C6_Witness ==
    /\ Called /\ WholeTree /\ OwnCert /\ RootIssued
    /\ FileAdded
    /\ verdict.result = "True"

\* both artifacts of d are files that parse
Parses(f, d) ==
    /\ f[d].sig.kind \in {"dict", "nonobject"}
    /\ f[d].crt.kind = "cert"
\* d holds a readable file whose bytes are not the ones its manifest signed
Mismatch(f, d) ==
    \E n \in PayloadNames :
        /\ f[d].files[n].kind = "file"
        /\ f[d].sig.kind = "dict"
        /\ f[d].sig.map[n].kind = "sig"
        /\ f[d].sig.map[n].data # f[d].files[n].data
\* d holds an unreadable file that its manifest has a signature for
LockedSigned(f, d) ==
    \E n \in PayloadNames :
        /\ f[d].files[n].kind = "locked"
        /\ f[d].sig.kind = "dict"
        /\ f[d].sig.map[n].kind = "sig"

C8_SkipNotPruned ==
    \A a \in Present(fs) : \A b \in Descendants(fs, a) :
        (/\ Called
         /\ ~Parses(fs, a)
         /\ Parses(fs, b) /\ Mismatch(fs, b))
        => verdict.result = "False"

\* the top directory lost its manifest, the file changed lies below it, and
\* nothing else stands in the way of a True verdict
C8_Witness ==
    /\ Called /\ WholeTree /\ OwnCert /\ RootIssued
    /\ fs[TopDir].sig.kind \in {"absent", "garbage"}
    /\ \E b \in Descendants(fs, TopDir) : Parses(fs, b) /\ Mismatch(fs, b)
    /\ verdict.result = "False"

====
